---- MODULE Spec2Model ----
(***************************************************************************)
(* A model of vegaprotocol/oracles-relay: the open-oracle payload builder  *)
(* and verifier (openoracle.go) and the relay's worker/main loop           *)
(* (main.go, with the coinbase worker's Pull).                             *)
(*                                                                         *)
(* Go strings and byte slices are sequences of byte values 0..255.         *)
(* Hex, decimal and ABI conversions are computed byte by byte.  The        *)
(* cryptographic primitives of go-ethereum (Keccak-256, ECDSA sign and     *)
(* recover) are replaced by small deterministic stand-ins that keep the    *)
(* algebra the code relies on: recovery over the signed digest with the    *)
(* signed recovery id yields the signer's public key; any other digest,   *)
(* r, s or recovery id yields another key or an error.                     *)
(***************************************************************************)
EXTENDS Integers, Sequences, FiniteSets, TLC

----------------------------------------------------------------------------
(* Byte strings *)

\* a function over 1..n as the sequence of its values
AsSeq(f) == f \o <<>>

Take(s, n) == SubSeq(s, 1, n)

Drop(s, n) == SubSeq(s, n + 1, Len(s))

Reverse(s) == AsSeq([i \in 1..Len(s) |-> s[Len(s) + 1 - i]])

Repeat(b, n) == AsSeq([i \in 1..n |-> b])

HasPrefix(s, p) == Len(s) >= Len(p) /\ Take(s, Len(p)) = p

\* strings.TrimPrefix
TrimPrefix(s, p) == IF HasPrefix(s, p) THEN Drop(s, Len(p)) ELSE s

\* ASCII
Str0x == <<48, 120>>
StrDot == <<46>>
StrPrices == <<112, 114, 105, 99, 101, 115>>
StrValue == <<118, 97, 108, 117, 101>>
StrTimestamp == <<116, 105, 109, 101, 115, 116, 97, 109, 112>>
StrBTC == <<66, 84, 67>>
StrETH == <<69, 84, 72>>

----------------------------------------------------------------------------
(* encoding/hex *)

hextable == <<48, 49, 50, 51, 52, 53, 54, 55, 56, 57, 97, 98, 99, 100, 101, 102>>

\* hex.EncodeToString: two lowercase digits per byte
EncodeToString(b) ==
    AsSeq([i \in 1..(2 * Len(b)) |->
        LET x == b[(i + 1) \div 2]
        IN  hextable[(IF i % 2 = 1 THEN x \div 16 ELSE x % 16) + 1]])

\* hex.fromHexChar: the digit's value, -1 for a byte that is no hex digit
fromHexChar(c) ==
    IF c >= 48 /\ c <= 57 THEN c - 48
    ELSE IF c >= 97 /\ c <= 102 THEN c - 87
    ELSE IF c >= 65 /\ c <= 70 THEN c - 55
    ELSE -1

\* hex.DecodeString: an error for a non-hex byte or an odd length
DecodeString(s) ==
    IF (\E i \in 1..Len(s) : fromHexChar(s[i]) < 0) \/ Len(s) % 2 = 1
    THEN [err |-> TRUE, bytes |-> <<>>]
    ELSE [err |-> FALSE,
          bytes |-> AsSeq([i \in 1..(Len(s) \div 2) |->
                        16 * fromHexChar(s[2 * i - 1]) + fromHexChar(s[2 * i])])]

----------------------------------------------------------------------------
(* math/big: a magnitude is a little-endian sequence of base-256 digits   *)
(* with no high zero digit (0 is <<>>); a big.Int is [neg, abs].           *)

RECURSIVE MulAdd(_, _, _)
\* abs * m + c
MulAdd(abs, m, c) ==
    IF abs = <<>>
    THEN IF c = 0 THEN <<>> ELSE <<c % 256>> \o MulAdd(<<>>, m, c \div 256)
    ELSE LET t == abs[1] * m + c
         IN  <<t % 256>> \o MulAdd(Tail(abs), m, t \div 256)

RECURSIVE DigitsValue(_, _, _)
\* the number written by the decimal digits s[from..to], at most 6 of them
DigitsValue(s, from, to) ==
    IF to < from THEN 0
    ELSE 10 * DigitsValue(s, from, to - 1) + (s[to] - 48)

RECURSIVE ParseDigits(_, _)
\* the magnitude of the first n decimal digits of s, read 6 digits at a time
ParseDigits(s, n) ==
    IF n <= 6 THEN MulAdd(<<>>, 1, DigitsValue(s, 1, n))
    ELSE MulAdd(ParseDigits(s, n - 6), 1000000, DigitsValue(s, n - 5, n))

IsDigits(s) == Len(s) > 0 /\ \A i \in 1..Len(s) : s[i] >= 48 /\ s[i] <= 57

\* big.Int.SetString(s, 10): an optional sign, then one or more digits;
\* ok = FALSE (a nil *big.Int) otherwise
SetString(s) ==
    LET signed == Len(s) > 0 /\ (s[1] = 43 \/ s[1] = 45)
        digits == IF signed THEN Tail(s) ELSE s
    IN  IF ~IsDigits(digits)
        THEN [ok |-> FALSE, neg |-> FALSE, abs |-> <<>>]
        ELSE LET a == ParseDigits(digits, Len(digits))
             IN  [ok |-> TRUE, neg |-> signed /\ s[1] = 45 /\ a # <<>>, abs |-> a]

RECURSIVE StripZeros(_)
\* a big-endian byte string without its leading zero bytes
StripZeros(be) == IF be # <<>> /\ be[1] = 0 THEN StripZeros(Tail(be)) ELSE be

RECURSIVE DivMod(_, _, _)
\* long division of a big-endian byte string by d, r the running remainder:
\* <<quotient bytes, remainder>>
DivMod(be, d, r) ==
    IF be = <<>> THEN <<(<<>>), r>>
    ELSE LET t == r * 256 + be[1]
             rest == DivMod(Tail(be), d, t % d)
         IN  <<(<<t \div d>>) \o rest[1], rest[2]>>

\* the 6 decimal digits of n < 10^6
SixDigits(n) ==
    <<48 + ((n \div 100000) % 10), 48 + ((n \div 10000) % 10),
      48 + ((n \div 1000) % 10), 48 + ((n \div 100) % 10),
      48 + ((n \div 10) % 10), 48 + (n % 10)>>

RECURSIVE DecimalDigits(_)
\* the decimal digits of a big-endian byte string, 6 at a time, zero-padded
DecimalDigits(be) ==
    LET m == StripZeros(be)
    IN  IF m = <<>> THEN <<>>
        ELSE LET qr == DivMod(m, 1000000, 0)
             IN  DecimalDigits(qr[1]) \o SixDigits(qr[2])

RECURSIVE StripZeroDigits(_)
StripZeroDigits(s) ==
    IF Len(s) > 1 /\ s[1] = 48 THEN StripZeroDigits(Tail(s)) ELSE s

\* big.Int.String of the unsigned integer held by a big-endian byte string
\* (also fmt's %v of a uint64)
FormatUint(be) ==
    IF StripZeros(be) = <<>> THEN <<48>> ELSE StripZeroDigits(DecimalDigits(be))

\* the big-endian byte string of a small natural, for the literals of the model
RECURSIVE NatBytes(_)
NatBytes(n) == IF n = 0 THEN <<>> ELSE NatBytes(n \div 256) \o <<n % 256>>

----------------------------------------------------------------------------
(* go-ethereum accounts/abi *)

\* common.LeftPadBytes to one word, keeping the low 32 bytes
Word(be) ==
    AsSeq([i \in 1..32 |->
        IF Len(be) + i - 32 >= 1 THEN be[Len(be) + i - 32] ELSE 0])

RECURSIVE AddOne(_)
\* a fixed-width little-endian string plus one, the carry out dropped
AddOne(le) ==
    IF le = <<>> THEN <<>>
    ELSE IF le[1] = 255 THEN <<0>> \o AddOne(Tail(le))
    ELSE <<le[1] + 1>> \o Tail(le)

\* math.U256Bytes: x AND (2^256 - 1) as one big-endian word; a negative x is
\* its two's complement
U256Bytes(x) ==
    LET low == Word(Reverse(x.abs))
    IN  IF ~x.neg THEN low
        ELSE Reverse(AddOne(Reverse(AsSeq([i \in 1..32 |-> 255 - low[i]]))))

\* the number a word holds when it is below 2^24, else -1 (above any length
\* or offset of the model)
WordNat(w) ==
    IF \E i \in 1..(29) : w[i] # 0 THEN -1
    ELSE 65536 * w[30] + 256 * w[31] + w[32]

Ceil32(n) == ((n + 31) \div 32) * 32

\* abi packBytesSlice: the length word, then the bytes right-padded to words
PackString(s) ==
    Word(NatBytes(Len(s))) \o s \o Repeat(0, Ceil32(Len(s)) - Len(s))

\* abi.Arguments.Pack of (string kind, uint64 timestamp, string key,
\* uint256 value); timestamp is a uint64 below 2^31, value a big.Int
Pack(kind, timestamp, key, value) ==
    LET tail1 == PackString(kind)
        tail2 == PackString(key)
    IN  Word(NatBytes(128))
        \o Word(NatBytes(timestamp))
        \o Word(NatBytes(128 + Len(tail1)))
        \o U256Bytes(value)
        \o tail1 \o tail2

\* abi lengthPrefixPointsTo for the head word at byte offset index
LengthPrefixPointsTo(index, output) ==
    LET off == WordNat(SubSeq(output, index + 1, index + 32))
        offsetEnd == off + 32
        length == IF off < 0 \/ offsetEnd > Len(output) THEN -1
                  ELSE WordNat(SubSeq(output, offsetEnd - 32 + 1, offsetEnd))
    IN  IF off < 0 \/ offsetEnd > Len(output) \/ length < 0
           \/ offsetEnd + length > Len(output)
        THEN [err |-> TRUE, start |-> 0, length |-> 0]
        ELSE [err |-> FALSE, start |-> offsetEnd, length |-> length]

\* abi toGoType for a string argument at head position n (0-based)
UnpackString(n, output) ==
    IF n * 32 + 32 > Len(output) THEN [err |-> TRUE, str |-> <<>>]
    ELSE LET p == LengthPrefixPointsTo(n * 32, output)
         IN  IF p.err THEN [err |-> TRUE, str |-> <<>>]
             ELSE [err |-> FALSE,
                   str |-> SubSeq(output, p.start + 1, p.start + p.length)]

\* abi toGoType for a uintN argument of `bytes` bytes at head position n
UnpackUint(n, bytes, output) ==
    IF n * 32 + 32 > Len(output) THEN [err |-> TRUE, be |-> <<>>]
    ELSE LET w == SubSeq(output, n * 32 + 1, n * 32 + 32)
         IN  IF \E i \in 1..(32 - bytes) : w[i] # 0
             THEN [err |-> TRUE, be |-> <<>>]
             ELSE [err |-> FALSE, be |-> w]

\* abi.Arguments.UnpackIntoMap for (string kind, uint64 timestamp, string key,
\* uint256 value)
UnpackIntoMap(data) ==
    LET kind == UnpackString(0, data)
        timestamp == UnpackUint(1, 8, data)
        key == UnpackString(2, data)
        value == UnpackUint(3, 32, data)
    IN  IF Len(data) = 0 \/ kind.err \/ timestamp.err \/ key.err \/ value.err
        THEN [err |-> TRUE, kind |-> <<>>, timestamp |-> <<>>, key |-> <<>>,
              value |-> <<>>]
        ELSE [err |-> FALSE, kind |-> kind.str, timestamp |-> timestamp.be,
              key |-> key.str, value |-> value.be]

----------------------------------------------------------------------------
(* go-ethereum crypto: deterministic stand-ins *)

RECURSIVE ColumnSum(_, _, _)
\* the weighted sum of the bytes of column c (1..32) from row `row` on
ColumnSum(b, c, row) ==
    IF 32 * row + c > Len(b) THEN 0
    ELSE (2 * row + 1) * b[32 * row + c] + ColumnSum(b, c, row + 1)

\* crypto.Keccak256: a 32-byte digest of b
Keccak256(b) ==
    AsSeq([c \in 1..32 |-> (ColumnSum(b, c, 0) + 7 * c + 13 * Len(b)) % 256])

\* "\x19Ethereum Signed Message:\n32"
TextPrefix ==
    <<25, 69, 116, 104, 101, 114, 101, 117, 109, 32, 83, 105, 103, 110, 101,
      100, 32, 77, 101, 115, 115, 97, 103, 101, 58, 10, 51, 50>>

\* accounts.TextHash of a 32-byte hash
TextHash(h) == Keccak256(TextPrefix \o h)

\* the public key of private key k
PublicKey(k) == AsSeq([i \in 1..32 |-> (37 * k + 11 * i) % 256])

\* the recovery id of a signature by pub over digest h
RecoveryId(pub, h) == (pub[1] + h[1]) % 2

\* crypto.Sign: r || s || v with v the raw recovery id, 0 or 1
Sign(h, k) ==
    LET pub == PublicKey(k)
    IN  AsSeq([i \in 1..65 |->
            IF i <= 32 THEN (pub[i] + h[i]) % 256
            ELSE IF i <= 64 THEN (3 * h[i - 32] + i) % 256
            ELSE RecoveryId(pub, h)])

\* crypto.SigToPub: the public key recovered from a signature over digest h;
\* an error for a signature that is not 65 bytes, a recovery id above 3, a
\* zero r or s, or a recovery id for which no point exists
SigToPub(h, sig) ==
    IF Len(sig) # 65 \/ sig[65] >= 4 \/ sig[65] >= 2
       \/ (\A i \in 1..32 : sig[i] = 0) \/ (\A i \in 33..64 : sig[i] = 0)
    THEN [err |-> TRUE, pub |-> <<>>]
    ELSE LET cand == AsSeq([i \in 1..32 |->
                        (1024 + sig[i] - h[i] + sig[i + 32] - (3 * h[i] + i + 32))
                            % 256])
         IN  [err |-> FALSE,
              pub |-> IF sig[65] = RecoveryId(cand, h) THEN cand
                      ELSE AsSeq([i \in 1..32 |-> (cand[i] + 1) % 256])]

\* common.Address.Hex: "0x" and 40 hex digits, a letter in upper case where
\* the matching digest nibble of the lower-case form is 8 or more (EIP-55)
AddressHex(addr) ==
    LET lower == EncodeToString(addr)
        hash == EncodeToString(Keccak256(lower))
    IN  Str0x \o [i \in 1..40 |->
                    IF lower[i] >= 97 /\ fromHexChar(hash[i]) >= 8
                    THEN lower[i] - 32 ELSE lower[i]]

\* crypto.PubkeyToAddress: the last 20 bytes of the key's digest
PubkeyToAddress(pub) == Drop(Keccak256(pub), 12)

\* strings.ToLower over ASCII
ToLower(s) ==
    AsSeq([i \in 1..Len(s) |-> IF s[i] >= 65 /\ s[i] <= 90 THEN s[i] + 32 ELSE s[i]])

----------------------------------------------------------------------------
(* openoracle.go *)

\* a Go map[string]string: a function from byte strings to byte strings
EmptyMap == [k \in {} |-> <<>>]

\* a map write that keeps an existing entry: the first write of a key wins.
\* Verify's last-write-wins aggregation tells it from MapSet
MapSetIfAbsent(m, k, v) ==
    [x \in DOMAIN m \cup {k} |-> IF x \in DOMAIN m THEN m[x] ELSE v]

\* m[k] = v
MapSet(m, k, v) == [x \in DOMAIN m \cup {k} |-> IF x = k THEN v ELSE m[x]]

\* func makeMessage(kind, key, timestamp, value): value is SetString's result;
\* Pack dereferences a nil *big.Int
makeMessage(kind, key, timestamp, value) ==
    IF ~value.ok THEN [outcome |-> "panic", bytes |-> <<>>]
    ELSE [outcome |-> "ok", bytes |-> Pack(kind, timestamp, key, value)]

\* signMessage without line 99's + 27: the signature as crypto.Sign returns
\* it. The round trip through Verify tells it from signMessage
signMessageRaw(msgBytes, privKey) ==
    IF privKey = 0 THEN [err |-> TRUE, sig |-> <<>>]
    ELSE [err |-> FALSE, sig |-> Sign(TextHash(Keccak256(msgBytes)), privKey)]

\* func signMessage(msgBytes, privKey): crypto.Sign refuses the zero key
signMessage(msgBytes, privKey) ==
    LET hashBytes == Keccak256(msgBytes)
        hashBytesPadded == TextHash(hashBytes)
        signature == Sign(hashBytesPadded, privKey)
    IN  IF privKey = 0 THEN [err |-> TRUE, sig |-> <<>>]
        ELSE [err |-> FALSE,
              sig |-> [signature EXCEPT ![65] = (signature[65] + 27) % 256]]

NoResponse == [Timestamp |-> <<>>, Messages |-> <<>>, Signatures |-> <<>>]

RECURSIVE IntoOpenOracleLoopPrepending(_, _, _, _)
\* the range loop of IntoOpenOracle with each message put in front of the
\* earlier ones instead of appended. The positional pairing of the response
\* tells it from IntoOpenOracleLoop
IntoOpenOracleLoopPrepending(oreq, privKey, i, oresp) ==
    IF i > Len(oreq.Prices) THEN [outcome |-> "ok", oresp |-> oresp]
    ELSE LET v == oreq.Prices[i]
             msg == makeMessage(StrPrices, v.Asset, v.Timestamp, SetString(v.Price))
             sig == signMessage(msg.bytes, privKey)
         IN  IF msg.outcome = "panic" THEN [outcome |-> "panic", oresp |-> NoResponse]
             ELSE IF sig.err THEN [outcome |-> "error", oresp |-> NoResponse]
             ELSE IntoOpenOracleLoopPrepending(oreq, privKey, i + 1,
                    [oresp EXCEPT
                        !.Messages = <<Str0x \o EncodeToString(msg.bytes)>> \o @,
                        !.Signatures = Append(@, Str0x \o EncodeToString(sig.sig))])

RECURSIVE IntoOpenOracleLoop(_, _, _, _)
\* the range loop of IntoOpenOracle from price i on, oresp the response so far
IntoOpenOracleLoop(oreq, privKey, i, oresp) ==
    IF i > Len(oreq.Prices) THEN [outcome |-> "ok", oresp |-> oresp]
    ELSE LET v == oreq.Prices[i]
             price == SetString(v.Price)
             msg == makeMessage(StrPrices, v.Asset, v.Timestamp, price)
             sig == signMessage(msg.bytes, privKey)
         IN  IF msg.outcome = "panic" THEN [outcome |-> "panic", oresp |-> NoResponse]
             ELSE IF sig.err THEN [outcome |-> "error", oresp |-> NoResponse]
             ELSE IntoOpenOracleLoop(oreq, privKey, i + 1,
                    [oresp EXCEPT
                        !.Messages = Append(@, Str0x \o EncodeToString(msg.bytes)),
                        !.Signatures = Append(@, Str0x \o EncodeToString(sig.sig))])

\* func (oreq *OracleRequest) IntoOpenOracle(privKey): what the call does
\* (returns a response, returns an error, or panics) and the response
IntoOpenOracle(oreq, privKey) ==
    IntoOpenOracleLoop(oreq, privKey, 1,
        [Timestamp |-> FormatUint(NatBytes(oreq.Timestamp)),
         Messages |-> <<>>, Signatures |-> <<>>])

\* Verify's fix-up of the decoded signature: the last byte moved to position
\* 64 of a signature longer than 65 bytes, then 27 subtracted from byte 64;
\* indexing byte 64 of a shorter slice panics
NormalizeSignature(sigBytes) ==
    LET cut == IF Len(sigBytes) > 65
               THEN Take([sigBytes EXCEPT ![65] = sigBytes[Len(sigBytes)]], 65)
               ELSE sigBytes
    IN  IF Len(cut) < 65 THEN [panic |-> TRUE, sig |-> <<>>]
        ELSE [panic |-> FALSE, sig |-> [cut EXCEPT ![65] = (cut[65] + 256 - 27) % 256]]

\* fmt.Sprintf("%v.%v.<field>", kind, key)
KeyName(kind, key, field) == kind \o StrDot \o key \o StrDot \o field

\* what Verify hands back: outcome "ok" (err nil), "error" or "panic";
\* decoded and recovered count the entries whose hex decoding and whose
\* public-key recovery were attempted
VerifyReturn(outcome, err, pubkeys, keyValues, decoded, recovered) ==
    [outcome |-> outcome, err |-> err, pubkeys |-> pubkeys,
     keyValues |-> keyValues, decoded |-> decoded, recovered |-> recovered]

RECURSIVE VerifyLoopSkipping(_, _, _, _, _)
\* the loop of Verify with a failing entry skipped instead of failing the
\* call. The all-or-nothing result of Verify tells it from VerifyLoop
VerifyLoopSkipping(oresp, i, pubkeys, keyValues, n) ==
    IF i > Len(oresp.Messages)
    THEN VerifyReturn("ok", "nil", pubkeys, keyValues, i - 1, n)
    ELSE LET sig == DecodeString(TrimPrefix(oresp.Signatures[i], Str0x))
             msg == DecodeString(TrimPrefix(oresp.Messages[i], Str0x))
             norm == NormalizeSignature(sig.bytes)
             pub == SigToPub(TextHash(Keccak256(msg.bytes)), norm.sig)
             m == UnpackIntoMap(msg.bytes)
         IN  IF sig.err \/ msg.err \/ norm.panic \/ pub.err \/ m.err
             THEN VerifyLoopSkipping(oresp, i + 1, pubkeys, keyValues, n)
             ELSE VerifyLoopSkipping(oresp, i + 1,
                    pubkeys \cup {AddressHex(PubkeyToAddress(pub.pub))},
                    MapSet(MapSet(keyValues,
                            KeyName(m.kind, m.key, StrValue), FormatUint(m.value)),
                        KeyName(m.kind, m.key, StrTimestamp), FormatUint(m.timestamp)),
                    n + 1)

RECURSIVE VerifyLoop(_, _, _, _, _)
\* the loop of Verify from index i on (1-based), n entries recovered so far
VerifyLoop(oresp, i, pubkeys, keyValues, n) ==
    IF i > Len(oresp.Messages)
    THEN VerifyReturn("ok", "nil", pubkeys, keyValues, i - 1, n)
    ELSE LET sig == DecodeString(TrimPrefix(oresp.Signatures[i], Str0x))
             msg == DecodeString(TrimPrefix(oresp.Messages[i], Str0x))
             hashDecoded == Keccak256(msg.bytes)
             hashDecodedPadded == TextHash(hashDecoded)
             norm == NormalizeSignature(sig.bytes)
             pub == SigToPub(hashDecodedPadded, norm.sig)
             addrHex == AddressHex(PubkeyToAddress(pub.pub))
             m == UnpackIntoMap(msg.bytes)
         IN  IF sig.err THEN VerifyReturn("error", "hexsig", {}, EmptyMap, i, n)
             ELSE IF msg.err THEN VerifyReturn("error", "hexmsg", {}, EmptyMap, i, n)
             ELSE IF norm.panic THEN VerifyReturn("panic", "nil", {}, EmptyMap, i, n)
             ELSE IF pub.err
             THEN VerifyReturn("error", "recover", {}, EmptyMap, i, n + 1)
             ELSE IF m.err THEN VerifyReturn("error", "abi", {}, EmptyMap, i, n + 1)
             ELSE VerifyLoop(oresp, i + 1, pubkeys \cup {addrHex},
                    MapSet(MapSet(keyValues,
                            KeyName(m.kind, m.key, StrValue), FormatUint(m.value)),
                        KeyName(m.kind, m.key, StrTimestamp), FormatUint(m.timestamp)),
                    n + 1)

\* Verify with the length check made after the loop, the loop run over the
\* entries both sequences have. The fail-fast length check tells it from
\* Verify
VerifyLengthLast(oresp) ==
    LET k == IF Len(oresp.Messages) < Len(oresp.Signatures)
             THEN Len(oresp.Messages) ELSE Len(oresp.Signatures)
        r == VerifyLoop([oresp EXCEPT !.Messages = Take(@, k),
                                      !.Signatures = Take(@, k)],
                        1, {}, EmptyMap, 0)
    IN  IF Len(oresp.Messages) # Len(oresp.Signatures) /\ r.outcome # "panic"
        THEN VerifyReturn("error", "length", {}, EmptyMap, r.decoded, r.recovered)
        ELSE r

\* func Verify(oresp OracleResponse) ([]string, map[string]string, error)
Verify(oresp) ==
    IF Len(oresp.Messages) # Len(oresp.Signatures)
    THEN VerifyReturn("error", "length", {}, EmptyMap, 0, 0)
    ELSE VerifyLoop(oresp, 1, {}, EmptyMap, 0)

\* Verify was not called
NotCalled == VerifyReturn("none", "nil", {}, EmptyMap, 0, 0)

\* func Unmarshal(payload): json.Unmarshal into an OracleResponse; a payload
\* is [json, resp], json FALSE for bytes that are no JSON object
Unmarshal(payload) ==
    IF payload.json THEN [err |-> "nil", oresp |-> payload.resp]
    ELSE [err |-> "json", oresp |-> NoResponse]

\* func UnmarshalVerify(payload, address) (*OracleResponse, error): ret is
\* what the caller receives (isnil: a nil *OracleResponse), verify is the
\* inner Verify's return, which is printed and dropped
UnmarshalVerify(payload, address) ==
    LET return(u, v) ==
          IF u.err # "nil"
          THEN [outcome |-> "error", verify |-> NotCalled,
                ret |-> [isnil |-> TRUE, oresp |-> NoResponse, err |-> u.err]]
          ELSE IF v.outcome = "panic"
          THEN [outcome |-> "panic", verify |-> v,
                ret |-> [isnil |-> TRUE, oresp |-> NoResponse, err |-> "nil"]]
          ELSE [outcome |-> v.outcome, verify |-> v,
                ret |-> [isnil |-> FALSE, oresp |-> u.oresp, err |-> v.err]]
    IN  return(Unmarshal(payload), Verify(Unmarshal(payload).oresp))

----------------------------------------------------------------------------
(* The inputs of the model *)

\* the longest request and the longest provider payload
MaxPrices == 2

\* private keys: 0 is the invalid key crypto.Sign refuses
PrivateKeys == {0, 1, 2}

Dec50000 == <<53, 48, 48, 48, 48>>
Dec7 == <<55>>
Dec08 == <<48, 56>>
DecMinus5 == <<45, 53>>
DecNone == <<120>>
\* 2^256 + 3
DecOver ==
    <<49, 49, 53, 55, 57, 50, 48, 56, 57, 50, 51, 55, 51, 49, 54, 49, 57, 53,
      52, 50, 51, 53, 55, 48, 57, 56, 53, 48, 48, 56, 54, 56, 55, 57, 48, 55,
      56, 53, 51, 50, 54, 57, 57, 56, 52, 54, 54, 53, 54, 52, 48, 53, 54, 52,
      48, 51, 57, 52, 53, 55, 53, 56, 52, 48, 48, 55, 57, 49, 51, 49, 50, 57,
      54, 51, 57, 57, 51, 57>>

\* 2^256 - 1
DecMax ==
    <<49, 49, 53, 55, 57, 50, 48, 56, 57, 50, 51, 55, 51, 49, 54, 49, 57, 53,
      52, 50, 51, 53, 55, 48, 57, 56, 53, 48, 48, 56, 54, 56, 55, 57, 48, 55,
      56, 53, 51, 50, 54, 57, 57, 56, 52, 54, 54, 53, 54, 52, 48, 53, 54, 52,
      48, 51, 57, 52, 53, 55, 53, 56, 52, 48, 48, 55, 57, 49, 51, 49, 50, 57,
      54, 51, 57, 57, 51, 53>>

OraclePrice(asset, price, timestamp) ==
    [Asset |-> asset, Price |-> price, Timestamp |-> timestamp]

OraclePrices ==
    {OraclePrice(StrBTC, Dec50000, 1), OraclePrice(StrETH, Dec7, 2),
     OraclePrice(StrBTC, Dec08, 2), OraclePrice(StrETH, DecMinus5, 1),
     OraclePrice(StrBTC, DecNone, 1), OraclePrice(StrETH, DecOver, 2),
     OraclePrice(StrBTC, DecMax, 1)}

SeqsUpTo(S, n) == UNION {[1..k -> S] : k \in 0..n}

OracleRequests ==
    {[Timestamp |-> 1, Prices |-> ps] : ps \in SeqsUpTo(OraclePrices, MaxPrices)}

\* what a provider attests: (kind, key, timestamp, value), signed by signer
Attestation(kind, key, timestamp, value, signer) ==
    [kind |-> kind, key |-> key, timestamp |-> timestamp, value |-> value,
     signer |-> signer]

Attestations ==
    {Attestation(StrPrices, StrBTC, 1, Dec50000, 1),
     Attestation(StrPrices, StrBTC, 2, Dec7, 2),
     Attestation(<<97, 46, 98>>, <<99>>, 1, Dec08, 1),
     Attestation(<<97>>, <<98, 46, 99>>, 2, Dec7, 1)}

\* the expected addresses a caller passes to UnmarshalVerify
Addresses ==
    {ToLower(AddressHex(PubkeyToAddress(PublicKey(1)))),
     AddressHex(PubkeyToAddress(PublicKey(2)))}

----------------------------------------------------------------------------
(* The provider: the bytes the relay fetches *)

\* a 65-byte signature as the 96-byte r || s || v-as-a-word of the provider
WideSignature(sig) == Take(sig, 64) \o Repeat(0, 31) \o <<sig[65]>>

\* the payload a provider builds from attestations, one signature each
ProviderResponse(atts, wide) ==
    LET msg(a) == Pack(a.kind, a.timestamp, a.key, SetString(a.value))
        sig(a) == signMessage(msg(a), a.signer).sig
    IN  [Timestamp |-> FormatUint(NatBytes(1)),
         Messages |->
            AsSeq([i \in 1..Len(atts) |-> Str0x \o EncodeToString(msg(atts[i]))]),
         Signatures |-> AsSeq([i \in 1..Len(atts) |->
            Str0x \o EncodeToString(IF wide THEN WideSignature(sig(atts[i]))
                                    ELSE sig(atts[i]))])]

MalformKinds ==
    {"dropSignature", "notJSON", "badHexSignature", "badHexMessage",
     "oddSignature", "emptySignature", "shortSignature", "longSignature",
     "badRecoveryId", "tamperMessage", "truncMessage", "upperNoPrefix"}

\* hex string s with the byte at 0-based position n (after "0x") set to b
SetHexByte(s, n, b) ==
    LET h == EncodeToString(<<b>>)
    IN  [s EXCEPT ![2 * n + 3] = h[1], ![2 * n + 4] = h[2]]

ToUpper(s) ==
    AsSeq([i \in 1..Len(s) |-> IF s[i] >= 97 /\ s[i] <= 122 THEN s[i] - 32 ELSE s[i]])

\* a payload as a faulty or unusual provider sends it
Malformed(payload, kind, i) ==
    LET r == payload.resp
        sg == r.Signatures[i]
        mg == r.Messages[i]
        withSig(x) == [payload EXCEPT !.resp.Signatures[i] = x]
        withMsg(x) == [payload EXCEPT !.resp.Messages[i] = x]
    IN  CASE kind = "dropSignature" ->
                [payload EXCEPT !.resp.Signatures = Take(@, Len(@) - 1)]
          [] kind = "notJSON" -> [payload EXCEPT !.json = FALSE]
          [] kind = "badHexSignature" -> withSig([sg EXCEPT ![Len(sg)] = 122])
          [] kind = "badHexMessage" -> withMsg([mg EXCEPT ![Len(mg)] = 122])
          [] kind = "oddSignature" -> withSig(Take(sg, Len(sg) - 1))
          [] kind = "emptySignature" -> withSig(Str0x)
          [] kind = "shortSignature" -> withSig(Take(sg, Len(sg) - 2))
          [] kind = "longSignature" -> withSig(sg \o <<48, 48>>)
          [] kind = "badRecoveryId" -> withSig(SetHexByte(sg, (Len(sg) - 4) \div 2, 31))
          [] kind = "tamperMessage" -> withMsg(SetHexByte(mg, 63, 9))
          [] kind = "truncMessage" -> withMsg(Take(mg, 202))
          [] kind = "upperNoPrefix" ->
                [payload EXCEPT !.resp.Signatures[i] = ToUpper(Drop(sg, 2)),
                                !.resp.Messages[i] = Drop(mg, 2)]

----------------------------------------------------------------------------
(* The builder and the verifier as a state machine *)

VARIABLES
    pc,        \* "idle", "built", "fetched", "done", "aborted"
    oreq,      \* the request given to IntoOpenOracle
    privKey,   \* the key given to IntoOpenOracle
    built,     \* what IntoOpenOracle did: [outcome, oresp]
    atts,      \* the attestations of a provider's payload
    malformed, \* how the payload was malformed, "no" if it was not
    payload,   \* the payload handed to UnmarshalVerify: [json, resp]
    address,   \* the address handed to UnmarshalVerify
    uv         \* what UnmarshalVerify did: [outcome, verify, ret]

ovars == <<pc, oreq, privKey, built, atts, malformed, payload, address, uv>>

VARIABLES
    mpc,       \* main: "select", "wait" (in wg.Wait), "exited", "crashed"
    wpc,       \* worker: "select", "pull", "send", "done", "crashed"
    ch,        \* the updates channel, oldest first
    sigc,      \* signals pending on sigc (capacity 1)
    tick,      \* ticks pending on the ticker's channel (capacity 1)
    cancelled, \* ctx is cancelled
    wg,        \* the WaitGroup's counter
    btes,      \* the worker's btes
    printed,   \* the answers main has printed
    pulls,     \* what Pull returns for each answer of the provider's API
    lastPull,  \* history: the worker's Pull of the current tick, [fetch, err]
    tickSent   \* history: the worker sent on ch since its last tick

rvars ==
    <<mpc, wpc, ch, sigc, tick, cancelled, wg, btes, printed, pulls, lastPull,
      tickSent>>

vars == <<ovars, rvars>>

NoRequest == [Timestamp |-> 0, Prices |-> <<>>]
NoPayload == [json |-> FALSE, resp |-> NoResponse]
NoBuild == [outcome |-> "none", oresp |-> NoResponse]
NoVerify ==
    [outcome |-> "none", verify |-> NotCalled,
     ret |-> [isnil |-> TRUE, oresp |-> NoResponse, err |-> "nil"]]

OInit ==
    /\ pc = "idle"
    /\ oreq = NoRequest
    /\ privKey = 0
    /\ built = NoBuild
    /\ atts = <<>>
    /\ malformed = "no"
    /\ payload = NoPayload
    /\ address = <<>>
    /\ uv = NoVerify

\* a caller builds a payload with IntoOpenOracle; the response is marshalled
\* to JSON for a verifier
Build(req, key) ==
    /\ pc = "idle"
    /\ \E b \in {IntoOpenOracle(req, key)} :
           /\ built' = b
           /\ pc' = IF b.outcome = "ok" THEN "built" ELSE "aborted"
           /\ payload' = IF b.outcome = "ok" THEN [json |-> TRUE, resp |-> b.oresp]
                         ELSE NoPayload
    /\ oreq' = req
    /\ privKey' = key
    /\ UNCHANGED <<atts, malformed, address, uv, rvars>>

\* the relay fetches a provider's payload
Fetch(as, wide) ==
    /\ pc = "idle"
    /\ pc' = "fetched"
    /\ atts' = as
    /\ payload' = [json |-> TRUE, resp |-> ProviderResponse(as, wide)]
    /\ UNCHANGED <<oreq, privKey, built, malformed, address, uv, rvars>>

\* the provider's payload arrives malformed
Malform(kind, i) ==
    /\ pc = "fetched"
    /\ malformed = "no"
    /\ i \in 1..Len(payload.resp.Messages)
    /\ kind \in {"dropSignature", "notJSON"} => i = 1
    /\ malformed' = kind
    /\ payload' = Malformed(payload, kind, i)
    /\ UNCHANGED <<pc, oreq, privKey, built, atts, address, uv, rvars>>

\* a caller hands the payload and an expected address to UnmarshalVerify
CallUnmarshalVerify(addr) ==
    /\ pc \in {"built", "fetched"}
    /\ \E r \in {UnmarshalVerify(payload, addr)} :
           /\ uv' = r
           /\ pc' = IF r.outcome = "panic" THEN "aborted" ELSE "done"
    /\ address' = addr
    /\ UNCHANGED <<oreq, privKey, built, atts, malformed, payload, rvars>>

Next ==
    \/ \E req \in OracleRequests, key \in PrivateKeys : Build(req, key)
    \/ \E as \in SeqsUpTo(Attestations, MaxPrices), wide \in BOOLEAN : Fetch(as, wide)
    \/ \E kind \in MalformKinds, i \in 1..MaxPrices : Malform(kind, i)
    \/ \E addr \in Addresses : CallUnmarshalVerify(addr)

----------------------------------------------------------------------------
(* The relay: main.go's main and startWorker, the coinbase worker's Pull *)

\* the capacity of the updates channel in the model; main makes it with
\* capacity 1000
ChanCap == 2

\* "0xfCEAdAFab14d46e20144F48824d0C09B1a03F2BC"
cbPubKey ==
    <<48, 120, 102, 67, 69, 65, 100, 65, 70, 97, 98, 49, 52, 100, 52, 54,
    101, 50, 48, 49, 52, 52, 70, 52, 56, 56, 50, 52, 100, 48, 67, 48, 57,
    66, 49, 97, 48, 51, 70, 50, 66, 67>>

\* what the provider's API can answer to one Pull: a failing time or data
\* request, the provider's payload ("good"), a payload signed by another key,
\* or the provider's payload malformed
Fetches ==
    {"timeError", "dataError", "good", "otherSigner", "notJSON",
     "dropSignature", "badHexMessage", "shortSignature"}

\* the bytes getOracleData returns for an answer
FetchedPayload(f) ==
    LET att == IF f = "otherSigner"
               THEN Attestation(StrPrices, StrBTC, 2, Dec7, 2)
               ELSE Attestation(StrPrices, StrBTC, 1, Dec50000, 1)
        sent == [json |-> TRUE, resp |-> ProviderResponse(<<att>>, f # "otherSigner")]
    IN  IF f \in MalformKinds THEN Malformed(sent, f, 1) ELSE sent

\* Pull without its call of UnmarshalVerify: every fetched answer is
\* returned. The verification of what reaches main tells it from Pull
PullUnverified(f) ==
    IF f = "timeError" THEN [outcome |-> "error", err |-> "time", btes |-> "nil"]
    ELSE IF f = "dataError" THEN [outcome |-> "error", err |-> "data", btes |-> "nil"]
    ELSE [outcome |-> "ok", err |-> "nil", btes |-> f]

\* func (p *Worker) Pull() ([]byte, error): err is "nil" or the failing
\* step; btes is the answer Pull returns
Pull(f) ==
    LET return(r) ==
          IF r.outcome = "panic"
          THEN [outcome |-> "panic", err |-> "nil", btes |-> "nil"]
          ELSE IF r.ret.err # "nil"
          THEN [outcome |-> "error", err |-> r.ret.err, btes |-> "nil"]
          ELSE [outcome |-> "ok", err |-> "nil", btes |-> f]
    IN  IF f = "timeError" THEN [outcome |-> "error", err |-> "time", btes |-> "nil"]
        ELSE IF f = "dataError"
        THEN [outcome |-> "error", err |-> "data", btes |-> "nil"]
        ELSE return(UnmarshalVerify(FetchedPayload(f), cbPubKey))

NoPull == [fetch |-> "none", err |-> "none"]

\* main up to its loop, for a configuration with a coinbase section: the
\* worker is started
RInit ==
    /\ mpc = "select"
    /\ wpc = "select"
    /\ ch = <<>>
    /\ sigc = 0
    /\ tick = 0
    /\ cancelled = FALSE
    /\ wg = 1
    /\ btes = "nil"
    /\ printed = {}
    /\ pulls = [f \in Fetches |-> Pull(f)]
    /\ lastPull = NoPull
    /\ tickSent = FALSE

Running == mpc \notin {"exited", "crashed"}

\* the operating system delivers SIGINT, SIGTERM or SIGQUIT
Signal ==
    /\ Running
    /\ sigc = 0
    /\ sigc' = 1
    /\ UNCHANGED <<mpc, wpc, ch, tick, cancelled, wg, btes, printed, lastPull, tickSent, pulls, ovars>>

\* the ticker fires
Tick ==
    /\ Running
    /\ wpc \in {"select", "pull", "send"}
    /\ tick = 0
    /\ tick' = 1
    /\ UNCHANGED <<mpc, wpc, ch, sigc, cancelled, wg, btes, printed, lastPull, tickSent, pulls, ovars>>

\* main's case <-sigc: cancel(), then wg.Wait()
MainSignal ==
    /\ mpc = "select"
    /\ sigc = 1
    /\ sigc' = 0
    /\ cancelled' = TRUE
    /\ mpc' = "wait"
    /\ UNCHANGED <<wpc, ch, tick, wg, btes, printed, lastPull, tickSent, pulls, ovars>>

\* main's case btes := <-ch: print
MainReceive ==
    /\ mpc = "select"
    /\ ch # <<>>
    /\ ch' = Tail(ch)
    /\ printed' = printed \cup {Head(ch)}
    /\ UNCHANGED <<mpc, wpc, sigc, tick, cancelled, wg, btes, lastPull, tickSent, pulls, ovars>>

\* wg.Wait() returns and main returns
MainReturn ==
    /\ mpc = "wait"
    /\ wg = 0
    /\ mpc' = "exited"
    /\ UNCHANGED <<wpc, ch, sigc, tick, cancelled, wg, btes, printed, lastPull, tickSent, pulls, ovars>>

\* startWorker's case <-ctx.Done(): wg.Done() and return
WorkerDone ==
    /\ Running
    /\ wpc = "select"
    /\ cancelled
    /\ wg' = wg - 1
    /\ wpc' = "done"
    /\ UNCHANGED <<mpc, ch, sigc, tick, cancelled, btes, printed, lastPull, tickSent, pulls, ovars>>

\* startWorker's case <-t.C
WorkerTick ==
    /\ Running
    /\ wpc = "select"
    /\ tick = 1
    /\ tick' = 0
    /\ wpc' = "pull"
    /\ lastPull' = NoPull
    /\ tickSent' = FALSE
    /\ UNCHANGED <<mpc, ch, sigc, cancelled, wg, btes, printed, pulls, ovars>>

\* btes, err := w.Pull(); on an error log and continue; a panic in the
\* worker's goroutine ends the process
WorkerPull(f) ==
    /\ Running
    /\ wpc = "pull"
    /\ \E r \in {pulls[f]} :
           /\ lastPull' = [fetch |-> f, err |-> r.err]
           /\ btes' = r.btes
           /\ wpc' = CASE r.outcome = "panic" -> "crashed"
                       [] r.outcome = "error" -> "select"
                       [] OTHER -> "send"
           /\ mpc' = IF r.outcome = "panic" THEN "crashed" ELSE mpc
    /\ UNCHANGED <<ch, sigc, tick, cancelled, wg, printed, tickSent, pulls, ovars>>

\* ch <- btes, which blocks while the channel is full
WorkerSend ==
    /\ Running
    /\ wpc = "send"
    /\ Len(ch) < ChanCap
    /\ ch' = Append(ch, btes)
    /\ wpc' = "select"
    /\ tickSent' = TRUE
    /\ UNCHANGED <<mpc, sigc, tick, cancelled, wg, btes, printed, lastPull, pulls, ovars>>

RelayNext ==
    \/ Signal
    \/ Tick
    \/ MainSignal
    \/ MainReceive
    \/ MainReturn
    \/ WorkerDone
    \/ WorkerTick
    \/ \E f \in Fetches : WorkerPull(f)
    \/ WorkerSend

----------------------------------------------------------------------------
Init == OInit /\ RInit

\* the builder and the verifier
Spec == Init /\ [][Next]_vars

\* the relay
RelaySpec == Init /\ [][RelayNext]_vars

\* the relay under the scheduling of the Go runtime: a goroutine that can
\* take a step takes one (weak fairness), and a select whose case is ready
\* again and again chooses it in the end, the choice among ready cases being
\* random (strong fairness); signals and ticks come from outside and need
\* not come at all
RelayFairSpec ==
    /\ RelaySpec
    /\ WF_vars(MainSignal \/ MainReceive)
    /\ WF_vars(MainReturn)
    /\ SF_vars(WorkerDone)
    /\ WF_vars(WorkerTick)
    /\ WF_vars(\E f \in Fetches : WorkerPull(f))
    /\ WF_vars(WorkerSend)

----------------------------------------------------------------------------
(* Properties *)

\* UnmarshalVerify was called on a payload that is JSON, so Verify was too
VerifyCalled == uv.outcome # "none" /\ payload.json

\* a decimal digit as a string
Digit(n) == <<48 + n>>

\* s <= t for two decimal numerals without leading zeros
DecLeq(s, t) ==
    \/ Len(s) < Len(t)
    \/ /\ Len(s) = Len(t)
       /\ \/ s = t
          \/ \E i \in 1..Len(s) :
                /\ s[i] < t[i]
                /\ \A j \in 1..(i - 1) : s[j] = t[j]

\* price is an unsigned decimal numeral of a value a uint256 holds
InUint256(price) == IsDigits(price) /\ DecLeq(StripZeroDigits(price), DecMax)

\* how entry i of a response fares in Verify: the first step that fails for
\* it ("short": the signature has fewer than 65 bytes), or "ok"
EntryStatus(oresp, i) ==
    LET sig == DecodeString(TrimPrefix(oresp.Signatures[i], Str0x))
        msg == DecodeString(TrimPrefix(oresp.Messages[i], Str0x))
        norm == NormalizeSignature(sig.bytes)
    IN  CASE sig.err -> "hexsig"
          [] ~sig.err /\ msg.err -> "hexmsg"
          [] ~sig.err /\ ~msg.err /\ norm.panic -> "short"
          [] OTHER ->
                IF SigToPub(TextHash(Keccak256(msg.bytes)), norm.sig).err
                THEN "recover"
                ELSE IF UnpackIntoMap(msg.bytes).err THEN "abi" ELSE "ok"

\* C1: Verify on a response whose messages and signatures differ in length
\* returns the length error, and no entry was hex-decoded, no recovery was
\* attempted, no address and no key/value was produced.
LengthMismatchFailsFirst ==
    (VerifyCalled /\ Len(payload.resp.Messages) # Len(payload.resp.Signatures))
        => /\ uv.verify = VerifyReturn("error", "length", {}, EmptyMap, 0, 0)
           /\ uv.ret.err = "length"

\* a response of two messages and one signature was verified
LengthMismatchSeen ==
    /\ VerifyCalled
    /\ Len(payload.resp.Messages) = 2
    /\ Len(payload.resp.Signatures) = 1
    /\ uv.verify.err = "length"

\* C2: Verify is all-or-nothing: it returns without error exactly when every
\* entry passes every step; when a hex decoding, a recovery or an ABI decoding
\* fails first at entry i, the call returns that error at entry i with no
\* address and no key/value, whatever the entries before i produced.
VerifyAllOrNothing ==
    (VerifyCalled /\ Len(payload.resp.Messages) = Len(payload.resp.Signatures))
        => LET r == payload.resp
               v == uv.verify
               bad == {i \in 1..Len(r.Messages) : EntryStatus(r, i) # "ok"}
           IN  /\ (v.outcome = "ok") <=> (bad = {})
               /\ v.outcome = "ok" => v.err = "nil" /\ v.decoded = Len(r.Messages)
               /\ v.outcome # "ok" => v.pubkeys = {} /\ v.keyValues = EmptyMap
               /\ \A i \in bad :
                    ((\A j \in bad : i <= j) /\ EntryStatus(r, i) # "short")
                        => /\ v.outcome = "error"
                           /\ v.err = EntryStatus(r, i)
                           /\ v.decoded = i
                           /\ uv.ret.err = v.err

\* the second entry of a response failed after the first one had passed
LaterEntryFailed ==
    /\ VerifyCalled
    /\ Len(payload.resp.Messages) = 2
    /\ Len(payload.resp.Signatures) = 2
    /\ EntryStatus(payload.resp, 1) = "ok"
    /\ uv.verify.outcome = "error"
    /\ uv.verify.decoded = 2
    /\ uv.verify.recovered = 2

\* C3: when a message of the payload is signed by a key whose address differs
\* (case-insensitively) from the expected address handed to UnmarshalVerify,
\* the caller sees it: the call returns an error, or the recovered addresses
\* are part of what it returns.
AddressMismatchObservable ==
    (/\ VerifyCalled
     /\ uv.verify.outcome = "ok"
     /\ \E a \in uv.verify.pubkeys : ToLower(a) # ToLower(address))
        => uv.ret.err # "nil" \/ "pubkeys" \in DOMAIN uv.ret

\* C4: for signatures that hex-decode, whatever their length and recovery
\* byte, Verify returns a result or an error and never aborts.
VerifyNeverAborts ==
    (/\ VerifyCalled
     /\ \A i \in 1..Len(payload.resp.Signatures) :
            ~DecodeString(TrimPrefix(payload.resp.Signatures[i], Str0x)).err)
        => uv.outcome \in {"ok", "error"}

\* the assets of a request are pairwise distinct
DistinctAssets(req) ==
    \A i, j \in 1..Len(req.Prices) :
        req.Prices[i].Asset = req.Prices[j].Asset => i = j

\* the key/values of a request: "prices.<asset>.value" -> the price in
\* decimal, "prices.<asset>.timestamp" -> the timestamp in decimal
RequestKeyValues(req) ==
    LET n == Len(req.Prices)
        vname(i) == KeyName(StrPrices, req.Prices[i].Asset, StrValue)
        tname(i) == KeyName(StrPrices, req.Prices[i].Asset, StrTimestamp)
    IN  [k \in UNION {{vname(i), tname(i)} : i \in 1..n} |->
            LET i == CHOOSE x \in 1..n : k \in {vname(x), tname(x)}
            IN  IF k = vname(i) THEN StripZeroDigits(req.Prices[i].Price)
                ELSE Digit(req.Prices[i].Timestamp)]

\* Verify of what IntoOpenOracle built returns no error, the address of the
\* signing key for every entry and the key/values of the request
RoundTripHolds ==
    /\ uv.verify.outcome = "ok"
    /\ uv.verify.err = "nil"
    /\ uv.ret.err = "nil"
    /\ uv.verify.pubkeys =
          {AddressHex(PubkeyToAddress(PublicKey(privKey))) : i \in 1..Len(oreq.Prices)}
    /\ uv.verify.keyValues = RequestKeyValues(oreq)

\* C5, as stated: the round trip for every request whose prices are unsigned
\* decimal numerals with pairwise distinct assets, and every valid key.
RoundTripAnyDecimal ==
    LET valid == /\ DistinctAssets(oreq)
                 /\ \A i \in 1..Len(oreq.Prices) : IsDigits(oreq.Prices[i].Price)
    IN  /\ (built.outcome # "none" /\ privKey # 0 /\ valid) => built.outcome = "ok"
        /\ (pc = "done" /\ built.outcome = "ok" /\ valid) => RoundTripHolds

\* C5: the round trip for every request whose prices are unsigned decimal
\* numerals of values below 2^256 with pairwise distinct assets, and every
\* valid key: IntoOpenOracle returns a response, and Verify of it returns no
\* error, exactly the key's address, and exactly the request's key/values,
\* a price shown in decimal without leading zeros.
RoundTrip ==
    LET valid == /\ DistinctAssets(oreq)
                 /\ \A i \in 1..Len(oreq.Prices) : InUint256(oreq.Prices[i].Price)
    IN  /\ (built.outcome # "none" /\ privKey # 0 /\ valid) => built.outcome = "ok"
        /\ (pc = "done" /\ built.outcome = "ok" /\ valid) => RoundTripHolds

\* a request of two prices, one of them 2^256 - 1, was built and verified
RoundTripDone ==
    /\ pc = "done"
    /\ built.outcome = "ok"
    /\ Len(oreq.Prices) = 2
    /\ DistinctAssets(oreq)
    /\ \A i \in 1..2 : InUint256(oreq.Prices[i].Price)
    /\ \E i \in 1..2 : oreq.Prices[i].Price = DecMax
    /\ uv.verify.outcome = "ok"
    /\ DOMAIN uv.verify.keyValues # {}

\* a provider's payload, as sent, was verified without error
ProviderVerified ==
    pc = "done" /\ built.outcome = "none" /\ malformed = "no" /\ uv.verify.outcome = "ok"

\* the key/values hold the value and the timestamp of attestation i
HoldsAttestation(kv, i) ==
    LET a == atts[i]
    IN  /\ KeyName(a.kind, a.key, StrValue) \in DOMAIN kv
        /\ KeyName(a.kind, a.key, StrTimestamp) \in DOMAIN kv
        /\ kv[KeyName(a.kind, a.key, StrValue)] = StripZeroDigits(a.value)
        /\ kv[KeyName(a.kind, a.key, StrTimestamp)] = Digit(a.timestamp)

\* C6, as stated: after a successful Verify the key/values hold, for every
\* (kind, key) pair of some message, the value and the timestamp of the last
\* message carrying that pair, so that messages with distinct pairs never
\* overwrite one another.
LastPairWins ==
    ProviderVerified =>
        \A i \in 1..Len(atts) :
            (\A j \in (i + 1)..Len(atts) :
                <<atts[j].kind, atts[j].key>> # <<atts[i].kind, atts[i].key>>)
                => HoldsAttestation(uv.verify.keyValues, i)

\* C6: after a successful Verify the key/values hold, for every name
\* "{kind}.{key}" of some message, the value and the timestamp of the last
\* message with that name, under "{kind}.{key}.value" and
\* "{kind}.{key}.timestamp", and nothing else; messages with distinct names
\* never overwrite one another.
LastNameWins ==
    ProviderVerified =>
        LET kv == uv.verify.keyValues
            name(i) == atts[i].kind \o StrDot \o atts[i].key
        IN  /\ DOMAIN kv =
                  UNION {{name(i) \o StrDot \o StrValue,
                          name(i) \o StrDot \o StrTimestamp} : i \in 1..Len(atts)}
            /\ \A i \in 1..Len(atts) :
                  (\A j \in (i + 1)..Len(atts) : name(j) # name(i))
                      => HoldsAttestation(kv, i)

\* two messages with the same (kind, key) and different values were verified
SamePairTwice ==
    /\ ProviderVerified
    /\ Len(atts) = 2
    /\ atts[1].kind = atts[2].kind
    /\ atts[1].key = atts[2].key
    /\ atts[1].value # atts[2].value
    /\ DOMAIN uv.verify.keyValues # {}

\* C7: whenever IntoOpenOracle returns a response, it has one message and one
\* signature per price of the request, message i decodes to ("prices", asset,
\* timestamp, price) of price i, and signature i is the signing key's
\* signature over message i.
PositionalPairing ==
    built.outcome = "ok" =>
        LET r == built.oresp
            n == Len(oreq.Prices)
        IN  /\ Len(r.Messages) = n
            /\ Len(r.Signatures) = n
            /\ \A i \in 1..n :
                  LET v == oreq.Prices[i]
                      msg == DecodeString(TrimPrefix(r.Messages[i], Str0x))
                      sig == DecodeString(TrimPrefix(r.Signatures[i], Str0x))
                      m == UnpackIntoMap(msg.bytes)
                  IN  /\ HasPrefix(r.Messages[i], Str0x) /\ ~msg.err
                      /\ HasPrefix(r.Signatures[i], Str0x) /\ ~sig.err
                      /\ ~m.err
                      /\ m.kind = StrPrices
                      /\ m.key = v.Asset
                      /\ FormatUint(m.timestamp) = Digit(v.Timestamp)
                      /\ InUint256(v.Price)
                            => FormatUint(m.value) = StripZeroDigits(v.Price)
                      /\ Len(sig.bytes) = 65
                      /\ SigToPub(TextHash(Keccak256(msg.bytes)),
                                  [sig.bytes EXCEPT ![65] = (@ + 256 - 27) % 256])
                            = [err |-> FALSE, pub |-> PublicKey(privKey)]

\* a response was built for two prices that differ in asset, price and
\* timestamp
TwoPricesBuilt ==
    /\ built.outcome = "ok"
    /\ Len(oreq.Prices) = 2
    /\ oreq.Prices[1].Asset # oreq.Prices[2].Asset
    /\ oreq.Prices[1].Price # oreq.Prices[2].Price
    /\ oreq.Prices[1].Timestamp # oreq.Prices[2].Timestamp
    /\ Len(built.oresp.Messages) = 2

\* C8: IntoOpenOracle on a request with a price that is not an unsigned
\* decimal numeral (empty, non-numeric or negative) returns an error and no
\* response: it neither aborts nor signs a message.
InvalidPriceIsAnError ==
    (/\ built.outcome # "none"
     /\ \E i \in 1..Len(oreq.Prices) : ~IsDigits(oreq.Prices[i].Price))
        => built.outcome = "error" /\ built.oresp = NoResponse

\* f is a fetched answer for which UnmarshalVerify returns no error
Verified(f) ==
    /\ f \in Fetches \ {"timeError", "dataError"}
    /\ LET r == UnmarshalVerify(FetchedPayload(f), cbPubKey)
       IN  r.outcome # "panic" /\ r.ret.err = "nil"

\* C9: once main has received a termination signal and waits on the
\* WaitGroup, the worker observes the cancelled context, calls wg.Done and
\* main returns (or the process has ended by a panic); the worker is never
\* left blocked sending on the channel main has stopped reading.
ShutdownCompletes == (mpc = "wait") ~> (mpc \in {"exited", "crashed"})

\* C10: every payload the worker sends on the updates channel, and so every
\* payload main receives, is one for which UnmarshalVerify returned no error
\* in the Pull of that tick; when Pull fails the worker sends nothing for
\* that tick and is back at its select.
OnlyVerifiedReachMain ==
    /\ \A i \in 1..Len(ch) : Verified(ch[i])
    /\ \A f \in printed : Verified(f)
    /\ wpc = "send" => Verified(btes) /\ lastPull = [fetch |-> btes, err |-> "nil"]
    /\ tickSent => lastPull.err = "nil"
    /\ lastPull.err \notin {"none", "nil"} =>
          /\ ~tickSent
          /\ wpc \in {"select", "done"}
          /\ wpc = "done" => cancelled

\* after a payload was delivered, a Pull failed in verification and the
\* worker is back at its select
FailureAfterDelivery ==
    /\ printed # {}
    /\ lastPull.err \in {"json", "length", "hexmsg"}
    /\ wpc = "select"
    /\ ~tickSent
    /\ mpc = "select"
====
